---- MODULE Spec2Model ----
(***************************************************************************)
(* Model of src/main.py: the biokleen.com PDF acquisition pipeline.        *)
(*                                                                         *)
(* Strings are sequences of symbols.  A symbol is either one character     *)
(* ("/", "?", "[", ".", "a", "A") or a literal run of characters that the  *)
(* code never splits ("pdf", "PDF", "%2E", "https:", a host name).  Every  *)
(* string conversion of the code (unquote, lower, re.sub, urlparse) is     *)
(* modelled by what it does to each symbol.                                *)
(***************************************************************************)
EXTENDS Naturals, Integers, Sequences, FiniteSets, TLC

(***************************************************************************)
(* Bounds of the model.                                                    *)
(***************************************************************************)
\* longest href body drawn for the filename specification
MaxBody == 4
\* number of executions of main() over one filesystem
MaxRuns == 2
\* number of anchors of a fetched page
MaxAnchors == 2

(***************************************************************************)
(* Program constants.                                                      *)
(***************************************************************************)
\* timeout_seconds default of wait_for_pdf_download
Timeout == 3

\* "https://www.biokleen.com", the prefix of line 264
Origin == <<"https:", "/", "/", "www.biokleen.com">>
\* scheme and authority of an absolute href found on the page
AbsPrefix == <<"https:", "/", "/", "cdn.biokleen.com">>

\* the html_file_path is absent
NoFile == <<"<absent>">>

(***************************************************************************)
(* Sequence helpers.                                                       *)
(***************************************************************************)
RECURSIVE SeqsUpTo(_, _)
SeqsUpTo(S, n) ==
    IF n = 0 THEN {<<>>}
    ELSE LET shorter == SeqsUpTo(S, n - 1)
         IN  shorter \cup {Append(s, x) : s \in {t \in shorter : Len(t) = n - 1}, x \in S}

Range(s) == {s[i] : i \in 1..Len(s)}

\* index of the first element of s from position `from` on that lies in D, or Len(s)+1
RECURSIVE FindFirst(_, _, _)
FindFirst(s, D, from) ==
    IF from > Len(s) THEN Len(s) + 1
    ELSE IF s[from] \in D THEN from
    ELSE FindFirst(s, D, from + 1)

\* index of the last element of s that lies in D, or 0
RECURSIVE FindLast(_, _, _)
FindLast(s, D, upto) ==
    IF upto = 0 THEN 0
    ELSE IF s[upto] \in D THEN upto
    ELSE FindLast(s, D, upto - 1)

RECURSIVE FlatMap(_, _)
FlatMap(F(_), s) == IF s = <<>> THEN <<>> ELSE F(Head(s)) \o FlatMap(F, Tail(s))

(***************************************************************************)
(* Character-level conversions.                                            *)
(***************************************************************************)
\* urllib.parse.unquote: "%2E" is the percent-escape of "."
UnquoteSym(c) == IF c = "%2E" THEN <<".">> ELSE <<c>>
unquote(s) == FlatMap(UnquoteSym, s)

\* str.lower
LowerSym(c) ==
    CASE c = "A"   -> <<"a">>
      [] c = "PDF" -> <<"pdf">>
      [] c = "%2E" -> <<"%2e">>
      [] OTHER     -> <<c>>
lower(s) == FlatMap(LowerSym, s)

\* symbols made only of characters of [a-z0-9._-]
AllowedSyms == {"a", ".", "pdf", "2e", "https", "www.biokleen.com", "cdn.biokleen.com",
                "download", "1", "2", "3", "4", "5", "6", "7", "8", "9"}

\* re.sub(r"[^a-z0-9._-]", "", .) on one symbol
StripSym(c) ==
    CASE c \in AllowedSyms -> <<c>>
      [] c = "%2e"         -> <<"2e">>
      [] c = "%2E"         -> <<"2">>
      [] c = "https:"      -> <<"https">>
      [] OTHER             -> <<>>
re_sub(s) == FlatMap(StripSym, s)

\* symbols holding an uppercase letter (str.isupper of some character)
UpperSyms == {"A", "PDF", "%2E"}

EndsWith(s, suffix) ==
    /\ Len(s) >= Len(suffix)
    /\ SubSeq(s, Len(s) - Len(suffix) + 1, Len(s)) = suffix

DotPdf == <<".", "pdf">>

(***************************************************************************)
(* parse_html, remove_duplicates_from_slice, validate_url, url_to_filename *)
(***************************************************************************)
\* line 39-42: the test on the decoded, lower-cased href
IsPdfHref(href) == EndsWith(lower(unquote(href)), DotPdf)

\* parse_html: the hrefs of the anchors, in document order, that pass the test
parse_html(html) == SelectSeq(html, IsPdfHref)

\* list(set(.)): the order of the result is not determined
remove_duplicates_from_slice(s) == Range(s)

\* urlsplit: scheme, netloc and path of a url; raises ValueError on an
\* unbalanced "[" in the netloc.  A ":" occurs only inside the symbol "https:".
HasScheme(url) == url # <<>> /\ url[1] = "https:"
AfterScheme(url) == IF HasScheme(url) THEN Tail(url) ELSE url
HasNetloc(url) ==
    LET r == AfterScheme(url) IN Len(r) >= 2 /\ r[1] = "/" /\ r[2] = "/"
NetlocEnd(url) == FindFirst(AfterScheme(url), {"/", "?", "#"}, 3)
Netloc(url) ==
    IF HasNetloc(url) THEN SubSeq(AfterScheme(url), 3, NetlocEnd(url) - 1) ELSE <<>>
AfterNetloc(url) ==
    LET r == AfterScheme(url)
    IN  IF HasNetloc(url) THEN SubSeq(r, NetlocEnd(url), Len(r)) ELSE r
urlparse_raises(url) == "[" \in Range(Netloc(url)) /\ "]" \notin Range(Netloc(url))
urlparse_path(url) ==
    LET r == AfterNetloc(url)
    IN  SubSeq(r, 1, FindFirst(r, {"?", "#"}, 1) - 1)

\* .split("/")[-1]
LastSegment(path) == SubSeq(path, FindLast(path, {"/"}, Len(path)) + 1, Len(path))

\* validators.url: an https URL whose authority is a host name
HostSyms == {"www.biokleen.com", "cdn.biokleen.com", "a", "A", ".", "pdf", "PDF"}
validate_url(given_url) ==
    /\ HasScheme(given_url)
    /\ HasNetloc(given_url)
    /\ Netloc(given_url) # <<>>
    /\ Range(Netloc(given_url)) \subseteq HostSyms

\* line 263-264: relative hrefs get the site origin prepended verbatim
RepairUrl(pdf_link) == IF validate_url(pdf_link) THEN pdf_link ELSE Origin \o pdf_link

\* line 55-65, defined where urlparse does not raise
url_to_filename(url) == lower(re_sub(lower(LastSegment(urlparse_path(url)))))

has_path_separator(name) == "/" \in Range(name)
matches_filename_pattern(name) == name # <<>> /\ Range(name) \subseteq AllowedSyms


(***************************************************************************)
(* The browser collaborator and the file system.                           *)
(***************************************************************************)
\* what fitz.open can find in a file
Contents == {"pages", "zero", "broken"}

\* what the site serves: one of its documents is truncated, the others are
\* PDFs with pages
TruncatedUrl == Origin \o <<"/", "A", ".", "PDF">>
ServedContent(u) == IF u = TruncatedUrl THEN "broken" ELSE "pages"

\* a file of the download directory: its name and what fitz finds in it
File(n, c) == [name |-> n, content |-> c]
Names(d) == {f.name : f \in d}
FileNamed(d, n) == CHOOSE f \in d : f.name = n

\* the name Chrome gives the file of a navigation: the decoded last path
\* segment, or "download.pdf" when the path has none
BrowserName(u) ==
    LET seg == unquote(LastSegment(urlparse_path(u)))
    IN  IF seg = <<>> THEN <<"download", ".", "pdf">> ELSE seg

DigitSym(k) ==
    CASE k = 1 -> "1" [] k = 2 -> "2" [] k = 3 -> "3" [] k = 4 -> "4" [] k = 5 -> "5"
      [] k = 6 -> "6" [] k = 7 -> "7" [] k = 8 -> "8" [] OTHER -> "9"

\* Chrome never overwrites: "name (k).ext" for the first free k
Numbered(n, k) ==
    LET p == FindLast(n, {"."}, Len(n))
        q == IF p = 0 THEN Len(n) + 1 ELSE p
    IN  SubSeq(n, 1, q - 1) \o <<" (", DigitSym(k), ")">> \o SubSeq(n, q, Len(n))
RECURSIVE FreshNumbered(_, _, _)
FreshNumbered(n, taken, k) ==
    IF Numbered(n, k) \notin taken THEN Numbered(n, k) ELSE FreshNumbered(n, taken, k + 1)
Uniquify(n, taken) == IF n \notin taken THEN n ELSE FreshNumbered(n, taken, 1)

\* the anchors of the site, in the order its pages list them
SiteAnchors ==
    << <<"/", "a", ".", "pdf">>,
       <<"/", "a", ".", "pdf">>,
       <<"/", "A", ".", "PDF">>,
       <<"/", "?", "a", ".", "pdf">>,
       <<"[", ".", "pdf">>,
       AbsPrefix \o <<"/", "a", "%2E", "pdf">>,
       <<"/", "a">> >>
\* a page shows up to MaxAnchors consecutive anchors of these
Pages ==
    {SubSeq(SiteAnchors, i, j) :
        i \in 1..Len(SiteAnchors), j \in 0..Len(SiteAnchors)} \cap
    SeqsUpTo(Range(SiteAnchors), MaxAnchors)

\* hrefs drawn for the filename specification
BodySyms == {"/", "?", "[", ".", "pdf", "PDF", "a", "%2E"}
Hrefs == {pre \o body : pre \in {<<>>, AbsPrefix}, body \in SeqsUpTo(BodySyms, MaxBody)}

(***************************************************************************)
(* State.                                                                  *)
(***************************************************************************)
VARIABLES
    pc,             \* position of main()
    run,            \* which execution of main() this is
    site,           \* anchors of https://www.biokleen.com/sds (environment)
    htmlFile,       \* content of biokleen.com.html, or NoFile
    sessions,       \* browser sessions that are open
    exc,            \* exception propagating out of main(), or "none"
    links,          \* pdf_links after deduplication
    todo,           \* links the for loop has not reached yet
    cur,            \* pdf_link of the current iteration (as extracted)
    url,            \* pdf_link after the repair of line 264
    filename,       \* url_to_filename(pdf_link)
    dir,            \* the files of ./PDFs
    pending,        \* downloads the browser has started and not yet written
    files_before,   \* files_before of download_single_pdf
    elapsed,        \* time.time() - (deadline - timeout_seconds)
    found,          \* new_pdf_files[0]
    files,          \* list of the sweep, the part not yet visited
    pdf_file,       \* file of the current sweep iteration
    step,           \* position inside the body of the sweep loop
    \* history of the run, read by the properties only
    htmlAtStart,    \* htmlFile when main() started
    pageLoaded,     \* driver.get(page url) was issued
    readContent,    \* what read_a_file returned, or NoFile
    outcome,        \* per link: "none", "Skipped", "Completed", "Failed"
    navigated,      \* links for which driver.get was issued
    existedAtCheck, \* links whose target was a file at line 205
    writer,         \* per file written in this download phase: the link whose
                    \* navigation made the browser write it
    moved,          \* per Completed link, the writer of the file relocated
    waitResult,     \* "none", "Found", "TimedOut" of the current link
    sawQualifying,  \* a listing taken before the deadline held a new PDF
    appearedInTime, \* the new PDFs that entered the directory before the deadline
    raisedIn,       \* links whose handling raised, with the place
    walked,         \* the files collected by the walk, as they were then
    validity,       \* per visited file: "Valid" or "Corrupt"
    deleted,        \* files removed by this sweep
    reported,       \* files printed by this sweep
    events,         \* order of deletions and reports of the current file
    prevLinks,      \* links of the previous run
    prevDone,       \* the previous run reached the end of main()
    \* filename specification
    fHref, fUrl, fName, fpc

mainVars == <<pc, run, site, htmlFile, sessions, exc, links, todo, cur, url, filename,
              dir, pending, files_before, elapsed, found, files, pdf_file, step>>
histVars == <<htmlAtStart, pageLoaded, readContent, outcome, navigated, existedAtCheck,
              writer, moved, waitResult, sawQualifying, appearedInTime,
              raisedIn, walked, validity, deleted, reported, events, prevLinks,
              prevDone>>
fVars == <<fHref, fUrl, fName, fpc>>
vars == <<mainVars, histVars, fVars>>


linkVars == <<cur, url, filename, files_before, elapsed, found>>
sweepVars == <<files, pdf_file, step>>
runHist == <<htmlAtStart, pageLoaded, readContent>>
checkHist == <<existedAtCheck>>
waitHist == <<waitResult, sawQualifying, appearedInTime>>
sweepHist == <<walked, validity, deleted, reported, events>>
prevHist == <<prevLinks, prevDone>>

(***************************************************************************)
(* Helpers of main() and download_single_pdf.                              *)
(***************************************************************************)
\* os.path.isfile(os.path.join(output_folder, filename)): with an empty
\* filename the path is the directory itself, which is no file
check_file_exists_isdir(d, name) == name = <<>>
check_file_exists(d, name) == name # <<>> /\ name \in Names(d)

\* append_write_to_file: mode "a"
append_write_to_file(old, content) == IF old = NoFile THEN content ELSE old \o content

\* a name that is not in the snapshot and ends in .pdf, whatever its case
IsNewPdf(n, before) ==
    /\ n \notin before
    /\ Len(n) >= 2
    /\ n[Len(n) - 1] = "."
    /\ n[Len(n)] \in {"pdf", "PDF"}

\* line 136-144: the new files of the listing that end in .pdf
new_pdf_files_nosnapshot(current_files, before) ==
    {f \in current_files : EndsWith(lower(f), DotPdf)}
new_pdf_files(current_files, before) ==
    {f \in current_files \ before : EndsWith(lower(f), DotPdf)}

\* line 163: file.endswith(extension), case-sensitive
walk_matches(name) == EndsWith(name, DotPdf)

\* validate_pdf_file on what fitz finds in the file
validate_pdf_file_nopagecheck(content) == content # "broken"
validate_pdf_file(content) == content # "broken" /\ content # "zero"

\* check_upper_case_letter(get_filename_and_extension(path))
check_upper_case_letter_whole(name) ==
    Range(name) \cap UpperSyms # {} /\ Range(name) \cap {"a", "pdf", "download"} = {}
check_upper_case_letter(name) == Range(name) \cap UpperSyms # {}

\* the two statements of the sweep loop body, in program order
SweepOrder_swapped == <<"report", "validate">>
SweepOrder == <<"validate", "report">>

\* driver.quit() of a finally clause
Quit_leaky(open, s, e) == IF e = "none" THEN open \ {s} ELSE open
Quit(open, s, e) == open \ {s}

\* shutil.move(src, dst) inside the download directory: os.rename replaces
\* the destination
shutil_move(d, src, dst) ==
    LET f == FileNamed(d, src)
    IN  {g \in d : g.name # src /\ g.name # dst} \cup {File(dst, f.content)}

(***************************************************************************)
(* Initial state: before the first run.                                    *)
(***************************************************************************)
StalePage == << <<"/", "a">>, <<"/", "a", ".", "pdf">> >>
PreName == <<"A", ".", "pdf">>

InitRunState ==
    /\ pc = "start"
    /\ sessions = {}
    /\ exc = "none"
    /\ links = {}
    /\ todo = {}
    /\ cur = <<>>
    /\ url = <<>>
    /\ filename = <<>>
    /\ pending = {}
    /\ files_before = {}
    /\ elapsed = 0
    /\ found = <<>>
    /\ files = {}
    /\ pdf_file = <<>>
    /\ step = 1
    /\ pageLoaded = FALSE
    /\ readContent = NoFile
    /\ outcome = <<>>
    /\ navigated = {}
    /\ existedAtCheck = {}
    /\ writer = {}
    /\ moved = {}
    /\ waitResult = "none"
    /\ sawQualifying = FALSE
    /\ appearedInTime = {}
    /\ raisedIn = {}
    /\ walked = {}
    /\ validity = {}
    /\ deleted = {}
    /\ reported = {}
    /\ events = <<>>

Init ==
    /\ InitRunState
    /\ run = 1
    /\ site \in Pages
    /\ htmlFile \in {NoFile, StalePage}
    /\ htmlAtStart = htmlFile
    /\ dir \in {{}} \cup {{File(PreName, c)} : c \in Contents}
    /\ prevLinks = {}
    /\ prevDone = FALSE
    /\ fHref = <<>> /\ fUrl = <<>> /\ fName = <<>> /\ fpc = "off"


(***************************************************************************)
(* main(): the HTML fetch phase.                                           *)
(***************************************************************************)
\* line 233-235
RemoveCachedHtml ==
    /\ pc = "start"
    /\ htmlFile' = IF htmlFile # NoFile THEN NoFile ELSE htmlFile
    /\ pc' = "check"
    /\ UNCHANGED <<run, site, sessions, exc, links, todo, linkVars, dir, pending,
                   sweepVars, histVars, fVars>>

\* line 238-240
CreateHtmlDriver ==
    /\ pc = "check"
    /\ IF htmlFile = NoFile
       THEN sessions' = sessions \cup {"html"} /\ pc' = "fetch"
       ELSE sessions' = sessions /\ pc' = "read"
    /\ UNCHANGED <<run, site, htmlFile, exc, links, todo, linkVars, dir, pending,
                   sweepVars, histVars, fVars>>

\* line 91-96: the page loads and its HTML is appended to the file
FetchOk ==
    /\ pc = "fetch"
    /\ pageLoaded' = TRUE
    /\ htmlFile' = append_write_to_file(htmlFile, site)
    /\ pc' = "quit_html"
    /\ UNCHANGED <<run, site, sessions, exc, links, todo, linkVars, dir, pending,
                   sweepVars, htmlAtStart, readContent, outcome, navigated, checkHist,
                   writer, moved, waitHist, raisedIn, sweepHist, prevHist, fVars>>

\* line 97-98: TimeoutException is caught, nothing is written
FetchTimeout ==
    /\ pc = "fetch"
    /\ pageLoaded' = TRUE
    /\ pc' = "quit_html"
    /\ UNCHANGED <<run, site, htmlFile, sessions, exc, links, todo, linkVars, dir,
                   pending, sweepVars, htmlAtStart, readContent, outcome, navigated,
                   checkHist, writer, moved, waitHist, raisedIn, sweepHist, prevHist, fVars>>

\* line 92-95: any other exception leaves save_html_with_selenium
FetchError ==
    /\ pc = "fetch"
    /\ pageLoaded' = TRUE
    /\ exc' = "fetch"
    /\ pc' = "quit_html"
    /\ UNCHANGED <<run, site, htmlFile, sessions, links, todo, linkVars, dir,
                   pending, sweepVars, htmlAtStart, readContent, outcome, navigated,
                   checkHist, writer, moved, waitHist, raisedIn, sweepHist, prevHist, fVars>>

\* line 247-248: finally
QuitHtmlDriver ==
    /\ pc = "quit_html"
    /\ sessions' = Quit(sessions, "html", exc)
    /\ pc' = IF exc # "none" THEN "aborted" ELSE "read"
    /\ UNCHANGED <<run, site, htmlFile, exc, links, todo, linkVars, dir, pending,
                   sweepVars, histVars, fVars>>

(***************************************************************************)
(* main(): the download phase.                                             *)
(***************************************************************************)
\* line 250-259
ReadAndParse ==
    /\ pc = "read"
    /\ IF htmlFile # NoFile
       THEN /\ readContent' = htmlFile
            /\ links' = remove_duplicates_from_slice(parse_html(htmlFile))
            /\ todo' = links'
            /\ outcome' = [l \in links' |-> "none"]
            /\ sessions' = sessions \cup {"download"}
            /\ pc' = "loop"
       ELSE /\ UNCHANGED <<readContent, links, todo, outcome, sessions>>
            /\ pc' = "walk"
    /\ UNCHANGED <<run, site, htmlFile, exc, linkVars, dir, pending, sweepVars,
                   htmlAtStart, pageLoaded, navigated, checkHist, writer, moved, waitHist,
                   raisedIn, sweepHist, prevHist, fVars>>

\* line 262-267: next link, repair, url_to_filename (outside any try)
LoopNext ==
    /\ pc = "loop"
    /\ todo # {}
    /\ \E l \in todo :
        /\ todo' = todo \ {l}
        /\ cur' = l
        /\ url' = RepairUrl(l)
        /\ IF urlparse_raises(RepairUrl(l))
           THEN /\ filename' = <<>>
                /\ exc' = "filename"
                /\ raisedIn' = raisedIn \cup {<<l, "filename">>}
                /\ pc' = "quit_dl"
           ELSE /\ filename' = url_to_filename(RepairUrl(l))
                /\ UNCHANGED <<exc, raisedIn>>
                /\ pc' = "exists"
    /\ files_before' = {}
    /\ elapsed' = 0
    /\ found' = <<>>
    /\ waitResult' = "none"
    /\ sawQualifying' = FALSE
    /\ appearedInTime' = {}
    /\ UNCHANGED <<run, site, htmlFile, sessions, links, dir, pending, sweepVars,
                   runHist, outcome, navigated, checkHist, writer, moved, sweepHist, prevHist,
                   fVars>>

\* line 262: the list is exhausted
LoopEnd ==
    /\ pc = "loop"
    /\ todo = {}
    /\ pc' = "quit_dl"
    /\ UNCHANGED <<run, site, htmlFile, sessions, exc, links, todo, linkVars, dir,
                   pending, sweepVars, histVars, fVars>>

\* line 200-207
CheckExists ==
    /\ pc = "exists"
    /\ IF check_file_exists(dir, filename)
       THEN /\ outcome' = [outcome EXCEPT ![cur] = "Skipped"]
            /\ existedAtCheck' = existedAtCheck \cup {cur}
            /\ pc' = "ret"
       ELSE /\ UNCHANGED <<outcome, existedAtCheck>>
            /\ pc' = "snapshot"
    /\ UNCHANGED <<run, site, htmlFile, sessions, exc, links, todo, linkVars, dir,
                   pending, sweepVars, runHist, navigated, writer, moved, waitHist, raisedIn,
                   sweepHist, prevHist, fVars>>

\* line 211
Snapshot ==
    /\ pc = "snapshot"
    /\ files_before' = Names(dir)
    /\ pc' = "nav"
    /\ UNCHANGED <<run, site, htmlFile, sessions, exc, links, todo, cur, url, filename,
                   elapsed, found, dir, pending, sweepVars, histVars, fVars>>

\* line 212: driver.get returns; the browser has started a download.
\* line 132: the deadline is taken
Navigate ==
    /\ pc = "nav"
    /\ pending' = pending \cup {[link |-> cur, url |-> url]}
    /\ navigated' = navigated \cup {cur}
    /\ elapsed' = 0
    /\ pc' = "wait"
    /\ UNCHANGED <<run, site, htmlFile, sessions, exc, links, todo, cur, url, filename,
                   files_before, found, dir, sweepVars, runHist, outcome, checkHist,
                   writer, moved, waitHist, raisedIn, sweepHist, prevHist, fVars>>

\* line 212, 221-222: driver.get raises; caught
NavigateError ==
    /\ pc = "nav"
    /\ navigated' = navigated \cup {cur}
    /\ outcome' = [outcome EXCEPT ![cur] = "Failed"]
    /\ raisedIn' = raisedIn \cup {<<cur, "navigation">>}
    /\ pc' = "ret"
    /\ UNCHANGED <<run, site, htmlFile, sessions, exc, links, todo, linkVars, dir,
                   pending, sweepVars, runHist, checkHist, writer, moved, waitHist, sweepHist,
                   prevHist, fVars>>

\* line 133-148: one evaluation of the loop test and, if it passes, of the
\* loop body: a listing, and the first new PDF in set order is returned.
\* TimeoutError is caught at line 221
Poll ==
    /\ pc = "wait"
    /\ LET new == new_pdf_files(Names(dir), files_before)
       IN  IF elapsed < Timeout
           THEN IF new # {}
                THEN /\ \E f \in new : found' = f
                     /\ waitResult' = "Found"
                     /\ pc' = "move"
                     /\ UNCHANGED <<outcome, raisedIn>>
                ELSE /\ pc' = "wait"
                     /\ UNCHANGED <<found, waitResult, outcome, raisedIn>>
           ELSE /\ waitResult' = "TimedOut"
                /\ outcome' = [outcome EXCEPT ![cur] = "Failed"]
                /\ raisedIn' = raisedIn \cup {<<cur, "timeout">>}
                /\ pc' = "ret"
                /\ UNCHANGED found
    /\ sawQualifying' =
          \/ sawQualifying
          \/ elapsed < Timeout /\ \E n \in Names(dir) : IsNewPdf(n, files_before)
    /\ UNCHANGED <<run, site, htmlFile, sessions, exc, links, todo, cur, url, filename,
                   files_before, elapsed, dir, pending, sweepVars, runHist, navigated,
                   checkHist, writer, moved, appearedInTime, sweepHist, prevHist, fVars>>

\* time passes while the monitor waits
Tick ==
    /\ pc = "wait"
    /\ elapsed < Timeout
    /\ elapsed' = elapsed + 1
    /\ UNCHANGED <<pc, run, site, htmlFile, sessions, exc, links, todo, cur, url,
                   filename, files_before, found, dir, pending, sweepVars, histVars,
                   fVars>>

\* line 218-222: with an empty filename the destination is the directory and
\* the file is already in it, so shutil.move raises; caught
Move ==
    /\ pc = "move"
    /\ IF filename = <<>>
       THEN /\ outcome' = [outcome EXCEPT ![cur] = "Failed"]
            /\ raisedIn' = raisedIn \cup {<<cur, "relocation">>}
            /\ UNCHANGED <<dir, writer, moved>>
       ELSE /\ dir' = shutil_move(dir, found, filename)
            /\ outcome' = [outcome EXCEPT ![cur] = "Completed"]
            /\ writer' = {w \in writer : w[1] # found /\ w[1] # filename}
                            \cup {<<filename, w[2]>> : w \in {v \in writer : v[1] = found}}
            /\ moved' = moved \cup {<<cur, w[2]>> : w \in {v \in writer : v[1] = found}}
            /\ UNCHANGED raisedIn
    /\ pc' = "ret"
    /\ UNCHANGED <<run, site, htmlFile, sessions, exc, links, todo, linkVars, pending,
                   sweepVars, runHist, navigated, checkHist, waitHist, sweepHist,
                   prevHist, fVars>>

\* line 275: download_single_pdf has returned; the iteration ends
Return ==
    /\ pc = "ret"
    /\ pc' = "loop"
    /\ cur' = <<>>
    /\ url' = <<>>
    /\ filename' = <<>>
    /\ files_before' = {}
    /\ elapsed' = 0
    /\ found' = <<>>
    /\ waitResult' = "none"
    /\ sawQualifying' = FALSE
    /\ appearedInTime' = {}
    /\ UNCHANGED <<run, site, htmlFile, sessions, exc, links, todo, dir, pending,
                   sweepVars, runHist, outcome, navigated, checkHist, writer, moved, raisedIn,
                   sweepHist, prevHist, fVars>>

\* line 276-277: finally; the browser and its unfinished downloads are gone
QuitDownloadDriver ==
    /\ pc = "quit_dl"
    /\ sessions' = Quit(sessions, "download", exc)
    /\ pending' = {}
    /\ pc' = IF exc # "none" THEN "aborted" ELSE "walk"
    /\ UNCHANGED <<run, site, htmlFile, exc, links, todo, linkVars, dir, sweepVars,
                   histVars, fVars>>

\* the browser finishes a download it was told to start, whenever it likes
\* while its session lives
BrowserWrite ==
    /\ "download" \in sessions
    /\ \E p \in pending :
        LET n == Uniquify(BrowserName(p.url), Names(dir))
        IN  /\ dir' = dir \cup {File(n, ServedContent(p.url))}
            /\ writer' = writer \cup {<<n, p.link>>}
            /\ pending' = pending \ {p}
            /\ appearedInTime' =
                  IF pc = "wait" /\ elapsed < Timeout /\ IsNewPdf(n, files_before)
                  THEN appearedInTime \cup {n}
                  ELSE appearedInTime
    /\ UNCHANGED <<pc, run, site, htmlFile, sessions, exc, links, todo, linkVars,
                   sweepVars, runHist, outcome, navigated, checkHist, moved, waitResult,
                   sawQualifying, raisedIn, sweepHist, prevHist, fVars>>


(***************************************************************************)
(* main(): the validation sweep.                                           *)
(***************************************************************************)
\* line 280-282
Walk ==
    /\ pc = "walk"
    /\ files' = {n \in Names(dir) : walk_matches(n)}
    /\ walked' = {f \in dir : walk_matches(f.name)}
    /\ pc' = "sweep"
    /\ htmlAtStart' = NoFile
    /\ pageLoaded' = FALSE
    /\ readContent' = NoFile
    /\ outcome' = <<>>
    /\ navigated' = {}
    /\ existedAtCheck' = {}
    /\ writer' = {}
    /\ moved' = {}
    /\ raisedIn' = {}
    /\ UNCHANGED <<run, site, htmlFile, sessions, exc, links, todo, linkVars, dir,
                   pending, pdf_file, step, waitHist, validity, deleted, reported,
                   events, prevHist, fVars>>

\* line 285: next file of the list, or the end of main()
SweepNext ==
    /\ pc = "sweep"
    /\ IF files = {}
       THEN /\ pc' = "done"
            /\ UNCHANGED <<files, pdf_file, step, events>>
       ELSE /\ \E f \in files : pdf_file' = f /\ files' = files \ {f}
            /\ step' = 1
            /\ events' = <<>>
            /\ pc' = "body"
    /\ UNCHANGED <<run, site, htmlFile, sessions, exc, links, todo, linkVars, dir,
                   pending, runHist, outcome, navigated, checkHist, writer, moved, waitHist,
                   raisedIn, walked, validity, deleted, reported, prevHist, fVars>>

\* line 288-290
SweepValidate ==
    /\ pc = "body"
    /\ SweepOrder[step] = "validate"
    /\ LET f == FileNamed(walked, pdf_file)
       IN  IF validate_pdf_file(f.content)
           THEN /\ validity' = validity \cup {<<pdf_file, "Valid">>}
                /\ UNCHANGED <<dir, deleted, events>>
           ELSE /\ validity' = validity \cup {<<pdf_file, "Corrupt">>}
                /\ dir' = {g \in dir : g.name # pdf_file}
                /\ deleted' = deleted \cup {pdf_file}
                /\ events' = Append(events, "delete")
    /\ step' = step + 1
    /\ pc' = IF step = Len(SweepOrder) THEN "sweep" ELSE "body"
    /\ UNCHANGED <<run, site, htmlFile, sessions, exc, links, todo, linkVars, pending,
                   files, pdf_file, runHist, outcome, navigated, checkHist, writer, moved,
                   waitHist, raisedIn, walked, reported, prevHist, fVars>>

\* line 293-297
SweepReport ==
    /\ pc = "body"
    /\ SweepOrder[step] = "report"
    /\ IF check_upper_case_letter(pdf_file)
       THEN /\ reported' = reported \cup {pdf_file}
            /\ events' = Append(events, "report")
       ELSE UNCHANGED <<reported, events>>
    /\ step' = step + 1
    /\ pc' = IF step = Len(SweepOrder) THEN "sweep" ELSE "body"
    /\ UNCHANGED <<run, site, htmlFile, sessions, exc, links, todo, linkVars, dir,
                   pending, files, pdf_file, runHist, outcome, navigated, checkHist,
                   writer, moved, waitHist, raisedIn, walked, validity, deleted, prevHist,
                   fVars>>

\* line 300: the program is started again on the same file system
Rerun ==
    /\ pc \in {"done", "aborted"}
    /\ run < MaxRuns
    /\ run' = run + 1
    /\ prevLinks' = links
    /\ prevDone' = (pc = "done")
    /\ htmlAtStart' = htmlFile
    /\ pc' = "start"
    /\ sessions' = {}
    /\ exc' = "none"
    /\ links' = {}
    /\ todo' = {}
    /\ cur' = <<>>
    /\ url' = <<>>
    /\ filename' = <<>>
    /\ pending' = {}
    /\ files_before' = {}
    /\ elapsed' = 0
    /\ found' = <<>>
    /\ files' = {}
    /\ pdf_file' = <<>>
    /\ step' = 1
    /\ pageLoaded' = FALSE
    /\ readContent' = NoFile
    /\ outcome' = <<>>
    /\ navigated' = {}
    /\ existedAtCheck' = {}
    /\ writer' = {}
    /\ moved' = {}
    /\ waitResult' = "none"
    /\ sawQualifying' = FALSE
    /\ appearedInTime' = {}
    /\ raisedIn' = {}
    /\ walked' = {}
    /\ validity' = {}
    /\ deleted' = {}
    /\ reported' = {}
    /\ events' = <<>>
    /\ UNCHANGED <<site, htmlFile, dir, fVars>>

Next ==
    \/ RemoveCachedHtml
    \/ CreateHtmlDriver
    \/ FetchOk
    \/ FetchTimeout
    \/ FetchError
    \/ QuitHtmlDriver
    \/ ReadAndParse
    \/ LoopNext
    \/ LoopEnd
    \/ CheckExists
    \/ Snapshot
    \/ Navigate
    \/ NavigateError
    \/ Poll
    \/ Tick
    \/ Move
    \/ Return
    \/ QuitDownloadDriver
    \/ BrowserWrite
    \/ Walk
    \/ SweepNext
    \/ SweepValidate
    \/ SweepReport
    \/ Rerun

Spec == Init /\ [][Next]_vars

(***************************************************************************)
(* The filename specification: parse_html's test, the repair of line 264   *)
(* and url_to_filename applied to every href of Hrefs.                     *)
(***************************************************************************)
InitFilename ==
    /\ InitRunState
    /\ run = 1
    /\ site = <<>>
    /\ htmlFile = NoFile
    /\ htmlAtStart = NoFile
    /\ dir = {}
    /\ prevLinks = {}
    /\ prevDone = FALSE
    /\ fHref \in Hrefs
    /\ fUrl = <<>>
    /\ fName = <<>>
    /\ fpc = "href"

\* line 39-43
FExtract ==
    /\ fpc = "href"
    /\ fpc' = IF IsPdfHref(fHref) THEN "accepted" ELSE "rejected"
    /\ UNCHANGED <<mainVars, histVars, fHref, fUrl, fName>>

\* line 263-264
FRepair ==
    /\ fpc = "accepted"
    /\ fUrl' = RepairUrl(fHref)
    /\ fpc' = "repaired"
    /\ UNCHANGED <<mainVars, histVars, fHref, fName>>

\* line 267
FDerive ==
    /\ fpc = "repaired"
    /\ IF urlparse_raises(fUrl)
       THEN fpc' = "raised" /\ fName' = fName
       ELSE fpc' = "derived" /\ fName' = url_to_filename(fUrl)
    /\ UNCHANGED <<mainVars, histVars, fHref, fUrl>>

NextFilename == FExtract \/ FRepair \/ FDerive

SpecFilename == InitFilename /\ [][NextFilename]_vars


(***************************************************************************)
(* Properties.                                                             *)
(***************************************************************************)
DownloadPhase == {"loop", "exists", "snapshot", "nav", "wait", "move", "ret", "quit_dl"}
AfterDownloads == {"walk", "sweep", "body", "done", "aborted"}
TargetIsFile == filename # <<>> /\ \E f \in dir : f.name = filename
HasUpper(n) == \E i \in 1..Len(n) : n[i] \in UpperSyms

\* C1 as stated: a link whose target file exists is never navigated, and a
\* second run over the same links, on the directory the first run left after
\* running to its end, issues no navigation at all.
C1_RerunDownloadsNothing ==
    /\ navigated \cap existedAtCheck = {}
    /\ (run > 1 /\ prevDone /\ pc \in DownloadPhase /\ links = prevLinks) => navigated = {}

\* C1 as amended: when the target is a regular file at the exists-check the
\* link is Skipped by a step that leaves the directory, the started downloads
\* and the set of navigated links as they were; in every run, the first and
\* any later one, the links navigated are among those whose target file was
\* absent at their exists-check.
C1_SkipIfFileExists ==
    /\ [](navigated \cap existedAtCheck = {})
    /\ [][(pc = "exists" /\ pc' # "exists" /\ TargetIsFile) =>
            /\ pc' = "ret"
            /\ outcome'[cur] = "Skipped"
            /\ dir' = dir
            /\ pending' = pending
            /\ navigated' = navigated]_vars

\* a second run that skipped a link and navigated nothing
C1_Witness ==
    /\ run = 2
    /\ pc = "quit_dl"
    /\ navigated = {}
    /\ \E l \in links : outcome[l] = "Skipped"

\* C2 as stated: Found names a new .pdf of the live listing, and every new
\* PDF that enters the directory before the deadline is the one returned.
C2_FoundWheneverAppeared ==
    /\ pc = "move" => found \in Names(dir) /\ IsNewPdf(found, files_before)
    /\ waitResult # "none" =>
          \A n \in appearedInTime : waitResult = "Found" /\ found = n

\* C2 as amended: the monitor ends Found or TimedOut; Found names a file of
\* the live listing that is not in the snapshot and ends in .pdf whatever its
\* case; it ends Found as soon as a listing taken before the deadline holds
\* such a file (for one of them), and TimedOut only after the deadline and
\* only if no listing taken before the deadline held one.
C2_MonitorResult ==
    /\ waitResult \in {"none", "Found", "TimedOut"}
    /\ pc = "move" =>
          /\ waitResult = "Found"
          /\ found \in Names(dir)
          /\ IsNewPdf(found, files_before)
    /\ sawQualifying => waitResult = "Found"
    /\ waitResult = "TimedOut" => elapsed >= Timeout /\ ~sawQualifying

\* the monitor returned a file whose extension is upper case, with a
\* non-empty snapshot
C2_Witness ==
    /\ pc = "move"
    /\ files_before # {}
    /\ found[Len(found)] = "PDF"

\* C3 as stated: whatever raises while a link is handled makes that link
\* Failed and does not leave the loop.
C3_FailureIsolation ==
    \A r \in raisedIn : exc = "none" /\ outcome[r[1]] = "Failed"

\* C4 as stated: with the HTML file present at the start of the run no HTML
\* session is created, no page is loaded and the extractor reads that file.
C4_FetchCache ==
    htmlAtStart # NoFile =>
        /\ "html" \notin sessions
        /\ ~pageLoaded
        /\ (readContent # NoFile => readContent = htmlAtStart)

\* C5: after the sweep every collected file that fitz cannot open or that
\* has zero pages is gone, every other collected file is there as it was,
\* and the classification of a zero-page file is that of a broken one.
C5_SweepDeletesCorrupt ==
    /\ \A v \in validity :
          v[2] = IF FileNamed(walked, v[1]).content = "pages" THEN "Valid" ELSE "Corrupt"
    /\ \A f \in walked : f.content = "pages" => f \in dir
    /\ pc = "done" =>
          \A f \in walked : f.content # "pages" => f.name \notin Names(dir)

\* the sweep ended after a zero-page file and a file with pages
C5_Witness ==
    /\ pc = "done"
    /\ \E f \in walked : f.content = "zero"
    /\ \E f \in walked : f.content = "pages" /\ f \in dir

\* C6 as stated: after the sweep the reported files are the Valid files
\* whose name holds an uppercase letter.
C6_ReportOnlyValid ==
    pc = "done" =>
        \A f \in walked :
            f.name \in reported <=> (f.content = "pages" /\ HasUpper(f.name))

\* C6 as amended: after the sweep the reported files are the collected files
\* whose name holds an uppercase letter, Valid or Corrupt; a Corrupt one is
\* deleted and still reported.
C6_ReportUppercase ==
    /\ reported \subseteq Names(walked)
    /\ pc = "done" => \A f \in walked : f.name \in reported <=> HasUpper(f.name)

\* a Corrupt file that was deleted and reported
C6_Witness ==
    /\ pc = "done"
    /\ \E f \in walked : f.content # "pages" /\ f.name \in deleted /\ f.name \in reported

\* C7: for the file of the current iteration no deletion follows a report.
C7_DeleteBeforeReport ==
    \A i, j \in 1..Len(events) : (events[i] = "report" /\ events[j] = "delete") => j < i

\* a file deleted and then reported
C7_Witness == events = <<"delete", "report">>

\* C8: at most one session is open, each only inside its phase, and none
\* once the download phase is left, by exception or not.
C8_SessionsReleased ==
    /\ Cardinality(sessions) <= 1
    /\ "html" \in sessions => pc \in {"fetch", "quit_html"}
    /\ "download" \in sessions => pc \in DownloadPhase
    /\ pc \in AfterDownloads => sessions = {}

\* main() was left by an exception and no session is open
C8_Witness == pc = "aborted" /\ exc = "filename" /\ sessions = {}

\* C9 as stated: for an accepted, repaired href url_to_filename returns a
\* non-empty name made of [a-z0-9._-] only.
C9_FilenameInvariant ==
    fpc \in {"derived", "raised"} =>
        /\ fpc = "derived"
        /\ matches_filename_pattern(fName)
        /\ ~has_path_separator(fName)

\* C10 as stated: the file moved to a Completed link's target was written
\* for that link's navigation.
C10_DownloadAttribution == \A m \in moved : m[2] = m[1]

====
